---- MODULE Spec2Model ----
(***************************************************************************)
(* Model of the Walmart unit-economics calculator:                         *)
(*   src/calc_engine.py  UnitEconomicsEngine (three passes over a table)   *)
(*   src/app.py          the Streamlit handlers that drive the engine      *)
(*                                                                         *)
(* Numbers.  The program computes in IEEE doubles.  The model computes in  *)
(* exact rationals extended with the three non-finite doubles (NaN, +inf,  *)
(* -inf), so "equal within floating tolerance" in the code is "equal" in   *)
(* the model.  The sign of zero is not modelled (every zero is +0).        *)
(* A value is a record [k, n, d, s]:                                       *)
(*   k = "num"  the finite number n/d, d > 0, gcd(n, d) = 1                *)
(*   k = "nan"  NaN          k = "inf"  n = 1: +inf, n = -1: -inf          *)
(*   k = "str"  the Python string s (a text cell, a unit name, ...)        *)
(*   k = "bool" the Python bool (n = 1: True, n = 0: False)                *)
(***************************************************************************)
EXTENDS Integers, Sequences, FiniteSets, TLC

Abs(x) == IF x < 0 THEN -x ELSE x

Sign(x) == IF x < 0 THEN -1 ELSE IF x > 0 THEN 1 ELSE 0

RECURSIVE GCD(_, _)
GCD(a, b) == IF b = 0 THEN a ELSE GCD(b, a % b)

\* the finite number n/d (d # 0), in lowest terms with a positive denominator
Num(n, d) ==
    LET g == GCD(Abs(n), Abs(d))
        sg == IF d < 0 THEN -1 ELSE 1
    IN [k |-> "num", n |-> sg * (n \div g), d |-> Abs(d) \div g, s |-> ""]

Int2(n) == [k |-> "num", n |-> n, d |-> 1, s |-> ""]
NaN == [k |-> "nan", n |-> 0, d |-> 1, s |-> ""]
PosInf == [k |-> "inf", n |-> 1, d |-> 1, s |-> ""]
NegInf == [k |-> "inf", n |-> -1, d |-> 1, s |-> ""]
Inf(sg) == IF sg < 0 THEN NegInf ELSE PosInf
Str(s) == [k |-> "str", n |-> 0, d |-> 1, s |-> s]
Bool(b) == [k |-> "bool", n |-> IF b THEN 1 ELSE 0, d |-> 1, s |-> ""]
Zero == Int2(0)
One == Int2(1)

IsNum(v) == v.k = "num"
IsNaN(v) == v.k = "nan"
IsInf(v) == v.k = "inf"
IsFloat(v) == v.k \in {"num", "nan", "inf"}
\* math.isfinite / numpy.isfinite
IsFinite(v) == v.k = "num"
\* the sign of a float that is not NaN
SignOf(v) == Sign(v.n)

\* float + float
Add(a, b) ==
    IF IsNaN(a) \/ IsNaN(b) THEN NaN
    ELSE IF IsInf(a) /\ IsInf(b) THEN (IF a.n = b.n THEN a ELSE NaN)
    ELSE IF IsInf(a) THEN a
    ELSE IF IsInf(b) THEN b
    ELSE LET g == GCD(a.d, b.d)
         IN Num(a.n * (b.d \div g) + b.n * (a.d \div g), a.d * (b.d \div g))

Neg(a) == IF IsNaN(a) THEN NaN ELSE [a EXCEPT !.n = -a.n]

\* float - float
Sub(a, b) == Add(a, Neg(b))

\* float * float
Mul(a, b) ==
    IF IsNaN(a) \/ IsNaN(b) THEN NaN
    ELSE IF IsInf(a) \/ IsInf(b)
         THEN (IF SignOf(a) = 0 \/ SignOf(b) = 0 THEN NaN
               ELSE Inf(SignOf(a) * SignOf(b)))
    ELSE LET g1 == GCD(Abs(a.n), b.d)
             g2 == GCD(Abs(b.n), a.d)
         IN Num((a.n \div g1) * (b.n \div g2), (a.d \div g2) * (b.d \div g1))

\* float / float as numpy divides: x/0 is +-inf, 0/0 is NaN, no exception
Div(a, b) ==
    IF IsNaN(a) \/ IsNaN(b) THEN NaN
    ELSE IF IsInf(b) THEN (IF IsInf(a) THEN NaN ELSE Zero)
    ELSE IF b.n = 0
         THEN (IF SignOf(a) = 0 THEN NaN ELSE Inf(SignOf(a)))
    ELSE IF IsInf(a) THEN Inf(SignOf(a) * SignOf(b))
    ELSE Mul(a, Num(b.d, b.n))

\* n1/d1 < n2/d2 for d1, d2 > 0, by integer parts and then the reciprocals of
\* the fractional parts (no product is formed)
RECURSIVE FracLt(_, _, _, _)
FracLt(n1, d1, n2, d2) ==
    LET q1 == n1 \div d1
        q2 == n2 \div d2
        r1 == n1 % d1
        r2 == n2 % d2
    IN IF q1 # q2 THEN q1 < q2
       ELSE IF r1 = 0 THEN r2 > 0
       ELSE IF r2 = 0 THEN FALSE
       ELSE FracLt(d2, r2, d1, r1)

\* a < b on floats: every comparison with NaN is False
Lt(a, b) ==
    IF IsNaN(a) \/ IsNaN(b) THEN FALSE
    ELSE IF IsInf(a) THEN (a.n < 0 /\ b # a)
    ELSE IF IsInf(b) THEN b.n > 0
    ELSE FracLt(a.n, a.d, b.n, b.d)

Gt(a, b) == Lt(b, a)

\* a == b on floats
Eq(a, b) == ~IsNaN(a) /\ ~IsNaN(b) /\ a = b

\* a <= b on floats
Leq(a, b) == Lt(a, b) \/ Eq(a, b)

\* Python's builtin max(a, b) and min(a, b): the first argument unless the
\* second compares greater (smaller)
PyMax(a, b) == IF Gt(b, a) THEN b ELSE a
PyMin(a, b) == IF Lt(b, a) THEN b ELSE a


(***************************************************************************)
(* pandas.  A DataFrame is [columns |-> set of column names, rows |-> the  *)
(* sequence of rows, each a function from columns to values]; a Series is  *)
(* a sequence of values, one per row.                                      *)
(***************************************************************************)
NRows(df) == Len(df.rows)

\* df[c]
Col(df, c) == [i \in 1..NRows(df) |-> df.rows[i][c]]

\* df[c] = series
SetCol(df, c, ser) ==
    LET cols == df.columns \cup {c}
    IN [columns |-> cols,
        rows |-> [i \in 1..NRows(df) |->
                    [x \in cols |-> IF x = c THEN ser[i] ELSE df.rows[i][x]]]]

\* df[c] = scalar (broadcast)
SetColScalar(df, c, v) == SetCol(df, c, [i \in 1..NRows(df) |-> v])

\* df.copy()
Copy(df) == df

SerMul(a, b) == [i \in 1..Len(a) |-> Mul(a[i], b[i])]
SerAdd(a, b) == [i \in 1..Len(a) |-> Add(a[i], b[i])]
SerSub(a, b) == [i \in 1..Len(a) |-> Sub(a[i], b[i])]
SerDiv(a, b) == [i \in 1..Len(a) |-> Div(a[i], b[i])]
SerMulC(a, c) == [i \in 1..Len(a) |-> Mul(a[i], c)]
SerDivC(a, c) == [i \in 1..Len(a) |-> Div(a[i], c)]
SerAddC(a, c) == [i \in 1..Len(a) |-> Add(a[i], c)]

\* Series.sum(): NaN cells are skipped (skipna), the empty sum is 0
RECURSIVE SumFrom(_, _)
SumFrom(ser, i) ==
    IF i > Len(ser) THEN Zero
    ELSE IF IsNaN(ser[i]) THEN SumFrom(ser, i + 1)
    ELSE Add(ser[i], SumFrom(ser, i + 1))

SerSum(ser) == SumFrom(ser, 1)

\* DataFrame.max(axis=1) over two columns: NaN cells are skipped
RowMax(a, b) ==
    IF IsNaN(a) THEN b ELSE IF IsNaN(b) THEN a ELSE IF Gt(b, a) THEN b ELSE a

\* float(s) for the text cells of the model: "7" parses, anything else does not
ParseFloat(s) == IF s = "7" THEN Int2(7) ELSE NaN

\* pd.to_numeric(cell, errors='coerce')
ToNumeric(v) ==
    CASE v.k = "str" -> ParseFloat(v.s)
      [] v.k = "bool" -> Int2(v.n)
      [] OTHER -> v

\* Series.fillna(default)
FillNa(v, default) == IF IsNaN(v) THEN default ELSE v

\* dict.get(key, default)
Get(dict, key, default) == IF key \in DOMAIN dict THEN dict[key] ELSE default

\* Python's None, as a mapping value
None == "<None>"

(***************************************************************************)
(* The defaults of the engine's assumptions.get(...) calls and the unit    *)
(* factors of run_conversions, as exact fractions.                         *)
(***************************************************************************)
InToM == Num(127, 5000)              \* 0.0254
CmPerIn == Num(127, 50)              \* 2.54
LbToKg == Num(56699, 125000)         \* 0.453592
KgToLb == Num(110231, 50000)         \* 2.20462
CbmToCuft == Num(353147, 10000)      \* 35.3147
Hundred == Int2(100)
Half == Num(1, 2)                    \* 0.5
DefaultDimDivisor == Int2(139)
DefaultFxRate == One
DefaultFreight == Zero
DefaultMpfRate == Num(433, 125000)   \* 0.003464
DefaultMpfMin == Int2(31)
DefaultMpfMax == Int2(614)
DefaultHmfRate == Num(1, 800)        \* 0.00125
DefaultBrokerage == Zero
DefaultReferralPct == Int2(15)
DefaultWfsBase == Num(69, 20)        \* 3.45
DefaultWfsAllowance == One
DefaultWfsExcess == Num(2, 5)        \* 0.40
DefaultStorageRate == Num(87, 100)   \* 0.87
DefaultAdsPct == Int2(5)
DefaultReturnsPct == Int2(3)

(***************************************************************************)
(* UnitEconomicsEngine.run_conversions                                     *)
(***************************************************************************)
\* d[key] = value on a dict kept as the sequence of its items in insertion
\* order: an existing key keeps its place and takes the new value
DictPut(d, key, value) ==
    IF \E i \in 1..Len(d) : d[i][1] = key
    THEN [i \in 1..Len(d) |-> IF d[i][1] = key THEN <<key, value>> ELSE d[i]]
    ELSE Append(d, <<key, value>>)

\* the canonical fields, in the order the dict literal lists them:
\* <<mapping key, internal column>>
CanonicalFields ==
    << <<"sku", "sku">>, <<"qty", "qty">>, <<"unit_cost", "unit_cost">>,
       <<"length", "length">>, <<"width", "width">>, <<"height", "height">>,
       <<"weight", "weight">>, <<"selling_price", "selling_price">>,
       <<"duty_rate", "duty_rate_pct">> >>

RECURSIVE TargetColsFrom(_, _, _)
TargetColsFrom(map, d, i) ==
    IF i > Len(CanonicalFields) THEN d
    ELSE LET f == CanonicalFields[i]
         IN TargetColsFrom(map, DictPut(d, Get(map, f[1], f[1]), f[2]), i + 1)

\* the dict literal target_cols: keyed by the SOURCE column name
target_cols(map) == TargetColsFrom(map, << >>, 1)

\* Python truthiness of a mapping value: None and '' are falsy
Truthy(user_col) == user_col # None /\ user_col # ""

\* one iteration of the rename loop
RenameStep(df, user_col, internal_col) ==
    IF Truthy(user_col) /\ user_col \in df.columns
    THEN SetCol(df, internal_col, Col(df, user_col))
    ELSE IF internal_col = "sku"
         THEN SetColScalar(df, internal_col, Str("Unknown-SKU"))
         ELSE SetColScalar(df, internal_col, Zero)

RECURSIVE RenameLoop(_, _, _)
RenameLoop(df, items, i) ==
    IF i > Len(items) THEN df
    ELSE RenameLoop(RenameStep(df, items[i][1], items[i][2]), items, i + 1)

\* _safe_numeric(col_name, default=0.0)
safe_numeric(df, col_name) ==
    LET df1 == IF col_name \notin df.columns
               THEN SetColScalar(df, col_name, Zero) ELSE df
    IN SetCol(df1, col_name,
              [i \in 1..NRows(df1) |-> FillNa(ToNumeric(df1.rows[i][col_name]), Zero)])

NumericCols ==
    <<"qty", "unit_cost", "length", "width", "height", "weight",
      "selling_price", "duty_rate_pct">>

RECURSIVE EnforceNumeric(_, _)
EnforceNumeric(df, i) ==
    IF i > Len(NumericCols) THEN df
    ELSE EnforceNumeric(safe_numeric(df, NumericCols[i]), i + 1)

\* lines 28-53: the canonical columns
canonical_columns(df, map) == EnforceNumeric(RenameLoop(df, target_cols(map), 1), 1)

\* lines 55-71: dimensions in metres and in inches
dim_conversions(df, a) ==
    LET uom_dim == Get(a, "uom_dim", Str("cm"))
        F(c, factor, mul) ==
            IF mul THEN SerMulC(Col(df, c), factor) ELSE SerDivC(Col(df, c), factor)
    IN IF uom_dim = Str("in")
       THEN SetCol(SetCol(SetCol(SetCol(SetCol(SetCol(df,
                "len_m", F("length", InToM, TRUE)),
                "wid_m", F("width", InToM, TRUE)),
                "hgt_m", F("height", InToM, TRUE)),
                "len_in", Col(df, "length")),
                "wid_in", Col(df, "width")),
                "hgt_in", Col(df, "height"))
       ELSE SetCol(SetCol(SetCol(SetCol(SetCol(SetCol(df,
                "len_m", F("length", Hundred, FALSE)),
                "wid_m", F("width", Hundred, FALSE)),
                "hgt_m", F("height", Hundred, FALSE)),
                "len_in", F("length", CmPerIn, FALSE)),
                "wid_in", F("width", CmPerIn, FALSE)),
                "hgt_in", F("height", CmPerIn, FALSE))

\* lines 73-81: weight in kg and in lb
weight_conversions(df, a) ==
    LET uom_weight == Get(a, "uom_weight", Str("kg"))
    IN IF uom_weight = Str("lb")
       THEN SetCol(SetCol(df,
                "weight_kg", SerMulC(Col(df, "weight"), LbToKg)),
                "weight_lb", Col(df, "weight"))
       ELSE SetCol(SetCol(df,
                "weight_kg", Col(df, "weight")),
                "weight_lb", SerMulC(Col(df, "weight"), KgToLb))

\* lines 83-87: volume metrics
volume_metrics(df) ==
    LET unit_cbm == SerMul(SerMul(Col(df, "len_m"), Col(df, "wid_m")), Col(df, "hgt_m"))
    IN SetCol(SetCol(SetCol(SetCol(df,
            "unit_cbm", unit_cbm),
            "unit_cuft", SerMulC(unit_cbm, CbmToCuft)),
            "total_line_cbm", SerMul(unit_cbm, Col(df, "qty"))),
            "total_line_weight_kg", SerMul(Col(df, "weight_kg"), Col(df, "qty")))

\* billable weight that ignores the dimensional weight
billable_weight_actual_only(weight_lb, dim_weight_lb) == weight_lb

\* line 92: billable weight of one row
billable_weight_lb(weight_lb, dim_weight_lb) == RowMax(weight_lb, dim_weight_lb)

\* lines 89-92: dimensional and billable weight
dim_weight(df, a) ==
    LET dim_div == Get(a, "dim_divisor", DefaultDimDivisor)
        dw == SerDivC(SerMul(SerMul(Col(df, "len_in"), Col(df, "wid_in")),
                             Col(df, "hgt_in")), dim_div)
        wl == Col(df, "weight_lb")
    IN SetCol(SetCol(df, "dim_weight_lb", dw),
              "billable_weight_lb",
              [i \in 1..NRows(df) |-> billable_weight_lb(wl[i], dw[i])])

run_conversions(df, map, a) ==
    dim_weight(volume_metrics(weight_conversions(
        dim_conversions(canonical_columns(df, map), a), a)), a)

(***************************************************************************)
(* UnitEconomicsEngine.calculate_landed_cost                               *)
(***************************************************************************)
\* lines 99-101: purchase cost
purchase_cost(df, a) ==
    LET fx_rate == Get(a, "fx_rate", DefaultFxRate)
        unit_cost_usd == SerMulC(Col(df, "unit_cost"), fx_rate)
    IN SetCol(SetCol(df, "unit_cost_usd", unit_cost_usd),
              "total_purchase_cost", SerMul(unit_cost_usd, Col(df, "qty")))

\* lines 108-109, 151: "if total == 0: total = 1"
ZeroToOne(total) == IF Eq(total, Zero) THEN One ELSE total

\* alloc_share with the weight column divided by the volume total
alloc_share_wrong_total(df, a) ==
    LET total_cbm == ZeroToOne(SerSum(Col(df, "total_line_cbm")))
        alloc_method == Get(a, "allocation_method", Str("cbm"))
    IN IF alloc_method = Str("weight")
       THEN SerDivC(Col(df, "total_line_weight_kg"), total_cbm)
       ELSE IF alloc_method = Str("hybrid")
            THEN SerAdd(SerMulC(SerDivC(Col(df, "total_line_cbm"), total_cbm), Half),
                        SerMulC(SerDivC(Col(df, "total_line_weight_kg"), total_cbm), Half))
            ELSE SerDivC(Col(df, "total_line_cbm"), total_cbm)

\* lines 120-126: the allocation share of every row
alloc_share(df, a) ==
    LET total_cbm == ZeroToOne(SerSum(Col(df, "total_line_cbm")))
        total_kg == ZeroToOne(SerSum(Col(df, "total_line_weight_kg")))
        alloc_method == Get(a, "allocation_method", Str("cbm"))
    IN IF alloc_method = Str("weight")
       THEN SerDivC(Col(df, "total_line_weight_kg"), total_kg)
       ELSE IF alloc_method = Str("hybrid")
            THEN SerAdd(SerMulC(SerDivC(Col(df, "total_line_cbm"), total_cbm), Half),
                        SerMulC(SerDivC(Col(df, "total_line_weight_kg"), total_kg), Half))
            ELSE SerDivC(Col(df, "total_line_cbm"), total_cbm)

\* lines 128-129: a batch total spread over the rows by a share, and per unit
per_unit(allocated, qty) == SerDiv(allocated, qty)

\* lines 103-129: freight allocation
freight_allocation(df, a) ==
    LET freight_total_spend == Get(a, "freight_total_spend", DefaultFreight)
        share == alloc_share(df, a)
        allocated == [i \in 1..NRows(df) |-> Mul(freight_total_spend, share[i])]
    IN SetCol(SetCol(SetCol(df, "alloc_share", share),
              "allocated_freight_total", allocated),
              "unit_freight_cost", per_unit(allocated, Col(df, "qty")))

\* line 144
total_invoice_val(df) == SerSum(Col(df, "total_purchase_cost"))

\* min(max(x, lo), hi) with Python's builtins
Clamp(x, lo, hi) == PyMin(PyMax(x, lo), hi)

\* total_mpf with the floor and the ceiling applied to every line
total_mpf_per_line(df, a) ==
    SerSum([i \in 1..NRows(df) |->
        Clamp(Mul(df.rows[i]["total_purchase_cost"], Get(a, "mpf_rate", DefaultMpfRate)),
              Get(a, "mpf_min", DefaultMpfMin), Get(a, "mpf_max", DefaultMpfMax))])

\* line 145: the Merchandise Processing Fee of the entry
total_mpf(df, a) ==
    Clamp(Mul(total_invoice_val(df), Get(a, "mpf_rate", DefaultMpfRate)),
          Get(a, "mpf_min", DefaultMpfMin), Get(a, "mpf_max", DefaultMpfMax))

\* line 146
total_hmf(df, a) == Mul(total_invoice_val(df), Get(a, "hmf_rate", DefaultHmfRate))

\* line 147
total_fixed_import_fees(df, a) ==
    Add(Add(total_mpf(df, a), total_hmf(df, a)),
        Get(a, "brokerage_fee", DefaultBrokerage))

\* value_share by quantity instead of by value
value_share_by_qty(df) ==
    SerDivC(Col(df, "qty"), ZeroToOne(SerSum(Col(df, "qty"))))

\* lines 151-152
value_share(df) ==
    SerDivC(Col(df, "total_purchase_cost"), ZeroToOne(total_invoice_val(df)))

\* lines 131-154: duty and the fixed import fees
duties_and_fees(df, a) ==
    LET unit_duty_amt == SerMul(Col(df, "unit_cost_usd"),
                                SerDivC(Col(df, "duty_rate_pct"), Hundred))
        share == value_share(df)
        fixed == total_fixed_import_fees(df, a)
        allocated == [i \in 1..NRows(df) |-> Mul(fixed, share[i])]
    IN SetCol(SetCol(SetCol(SetCol(df, "unit_duty_amt", unit_duty_amt),
              "value_share", share),
              "allocated_import_fees", allocated),
              "unit_import_fees", per_unit(allocated, Col(df, "qty")))

\* lines 157-162
landed_cost_unit(df) ==
    SetCol(df, "landed_cost_unit",
           SerAdd(SerAdd(SerAdd(Col(df, "unit_cost_usd"), Col(df, "unit_freight_cost")),
                         Col(df, "unit_duty_amt")), Col(df, "unit_import_fees")))

calculate_landed_cost(df, a) ==
    landed_cost_unit(duties_and_fees(freight_allocation(purchase_cost(df, a), a), a))

\* the local variables of calculate_landed_cost as they stand when it returns
landed_locals(df, a) ==
    LET df1 == purchase_cost(df, a)
    IN [total_cbm |-> ZeroToOne(SerSum(Col(df1, "total_line_cbm"))),
        total_kg |-> ZeroToOne(SerSum(Col(df1, "total_line_weight_kg"))),
        freight_total_spend |-> Get(a, "freight_total_spend", DefaultFreight),
        total_invoice_val |-> ZeroToOne(total_invoice_val(df1)),
        total_mpf |-> total_mpf(df1, a),
        total_hmf |-> total_hmf(df1, a),
        fixed_brokerage |-> Get(a, "brokerage_fee", DefaultBrokerage),
        total_fixed_import_fees |-> total_fixed_import_fees(df1, a)]

(***************************************************************************)
(* UnitEconomicsEngine.calculate_walmart_economics                         *)
(***************************************************************************)
\* line 170: is the per-row override column used?
use_override(df) ==
    /\ "walmart_referral_pct" \in df.columns
    /\ Gt(SerSum(Col(df, "walmart_referral_pct")), Zero)

\* lines 168-173
referral_fee(df, a) ==
    LET def_ref_rate == Get(a, "default_referral_pct", DefaultReferralPct)
    IN IF use_override(df)
       THEN SerMul(Col(df, "selling_price"),
                   SerDivC(Col(df, "walmart_referral_pct"), Hundred))
       ELSE SerMulC(Col(df, "selling_price"), Div(def_ref_rate, Hundred))

\* lines 185-190: the fulfillment fee of a row of billable weight bw
calc_wfs(bw, a) ==
    LET wfs_base == Get(a, "wfs_base_fee", DefaultWfsBase)
        wfs_weight_allowance == Get(a, "wfs_base_weight_lb", DefaultWfsAllowance)
        wfs_excess_rate == Get(a, "wfs_excess_per_lb", DefaultWfsExcess)
    IN IF Leq(bw, wfs_weight_allowance)
       THEN wfs_base
       ELSE Add(wfs_base, Mul(Sub(bw, wfs_weight_allowance), wfs_excess_rate))

\* line 221
var_fee_pct(a) ==
    Div(Add(Add(Get(a, "default_referral_pct", DefaultReferralPct),
                Get(a, "ads_pct_sales", DefaultAdsPct)),
            Get(a, "returns_pct_sales", DefaultReturnsPct)), Hundred)

\* a breakeven price that leaves the fulfillment fee out of the fixed costs
breakeven_price_without_fulfillment(df, a) ==
    LET fixed_costs == SerAdd(Col(df, "landed_cost_unit"), Col(df, "wfs_storage_fee_mo"))
    IN SerDivC(fixed_costs, Sub(One, var_fee_pct(a)))

\* lines 222-224
breakeven_price(df, a) ==
    LET fixed_costs == SerAdd(SerAdd(Col(df, "landed_cost_unit"),
                                     Col(df, "wfs_fulfillment_fee")),
                              Col(df, "wfs_storage_fee_mo"))
    IN SerDivC(fixed_costs, Sub(One, var_fee_pct(a)))

\* lines 216-217: a percentage of net_profit over a base
pct_of(net_profit, base) == SerMulC(SerDiv(net_profit, base), Hundred)

\* lines 167-204: the fee columns
fee_columns(df, a) ==
    LET bw == Col(df, "billable_weight_lb")
        storage_rate == Get(a, "wfs_storage_rate", DefaultStorageRate)
        ads_pct == Get(a, "ads_pct_sales", DefaultAdsPct)
        returns_pct == Get(a, "returns_pct_sales", DefaultReturnsPct)
    IN SetCol(SetCol(SetCol(SetCol(SetCol(df,
            "referral_fee", referral_fee(df, a)),
            "wfs_fulfillment_fee", [i \in 1..NRows(df) |-> calc_wfs(bw[i], a)]),
            "wfs_storage_fee_mo", SerMulC(Col(df, "unit_cuft"), storage_rate)),
            "ads_cost", SerMulC(Col(df, "selling_price"), Div(ads_pct, Hundred))),
            "returns_cost", SerMulC(Col(df, "selling_price"), Div(returns_pct, Hundred)))

\* lines 206-227: profitability
profitability(df, a) ==
    LET total_amz_fees ==
            SerAdd(SerAdd(SerAdd(SerAdd(Col(df, "referral_fee"),
                Col(df, "wfs_fulfillment_fee")), Col(df, "wfs_storage_fee_mo")),
                Col(df, "ads_cost")), Col(df, "returns_cost"))
        net_profit == SerSub(SerSub(Col(df, "selling_price"),
                                    Col(df, "landed_cost_unit")), total_amz_fees)
    IN SetCol(SetCol(SetCol(SetCol(SetCol(SetCol(df,
            "total_amz_fees", total_amz_fees),
            "net_profit", net_profit),
            "net_margin_pct", pct_of(net_profit, Col(df, "selling_price"))),
            "roi_pct", pct_of(net_profit, Col(df, "landed_cost_unit"))),
            "breakeven_price", breakeven_price(df, a)),
            "is_profitable", [i \in 1..NRows(df) |-> Bool(Gt(net_profit[i], Zero))])

calculate_walmart_economics(df, a) == profitability(fee_columns(df, a), a)

(***************************************************************************)
(* State.  DataFrames are Python objects, held by reference: heap maps an  *)
(* object reference to the DataFrame's contents, and every variable that   *)
(* names a DataFrame holds a reference (0 is None).                        *)
(***************************************************************************)
VARIABLES
    heap,                 \* reference -> DataFrame contents
    data_df,              \* st.session_state['data_df']
    mappings,             \* st.session_state['mappings']
    results,              \* st.session_state['results']
    last_assumptions,     \* st.session_state['last_assumptions']
    current_assumptions,  \* the Assumptions record the caller built (app.py 181-200)
    message,              \* the last st.success / st.error / st.info shown
    engine,               \* the UnitEconomicsEngine under construction or NoEngine
    locals,               \* the local totals of calculate_landed_cost
    pc                    \* position of the run: idle, constructed, converted, landed, priced

vars == <<heap, data_df, mappings, results, last_assumptions, current_assumptions,
          message, engine, locals, pc>>

EmptyDict == [x \in {} |-> None]
NoEngine == [df |-> 0, map |-> EmptyDict, logs |-> << >>]
NoLocals == [x \in {} |-> Zero]

\* the smallest reference not in use
NewRef(h) == CHOOSE r \in 1..(Cardinality(DOMAIN h) + 1) :
                 r \notin DOMAIN h /\ \A q \in 1..(r - 1) : q \in DOMAIN h

\* objects no variable refers to any longer are collected
Collect(h, live) == [r \in (DOMAIN h) \cap live |-> h[r]]

Store(h, r, df) == [x \in (DOMAIN h) \cup {r} |-> IF x = r THEN df ELSE h[x]]

\* self.df = df: the engine works on the caller's object
init_df_no_copy(h, df) == <<h, df>>

\* calc_engine.py line 11: self.df = df.copy().  The new heap and the
\* reference the engine holds.
init_df(h, df) ==
    LET r == NewRef(h) IN <<Store(h, r, Copy(h[df])), r>>

\* calc_engine.py lines 10-14
engine_init(h, df, map) ==
    LET c == init_df(h, df)
    IN <<c[1], [df |-> c[2], map |-> map, logs |-> << >>]>>

\* app.py 134-200: the assumption widgets at their initial values
WidgetDefaults ==
    [uom_dim |-> Str("cm"), uom_weight |-> Str("kg"), fx_rate |-> One,
     freight_total_spend |-> Int2(5000), allocation_method |-> Str("cbm"),
     mpf_rate |-> Num(433, 125000), mpf_min |-> Int2(31), mpf_max |-> Int2(614),
     hmf_rate |-> Num(1, 800), brokerage_fee |-> Int2(150),
     default_referral_pct |-> Int2(15), wfs_storage_rate |-> Num(87, 100),
     wfs_base_fee |-> Num(69, 20), wfs_base_weight_lb |-> One,
     wfs_excess_per_lb |-> Num(2, 5), dim_divisor |-> Int2(139),
     ads_pct_sales |-> Int2(5), returns_pct_sales |-> Int2(3)]

Init ==
    /\ heap = [r \in {} |-> 0]
    /\ data_df = 0
    /\ mappings = EmptyDict
    /\ results = 0
    /\ last_assumptions = EmptyDict
    /\ current_assumptions = WidgetDefaults
    /\ message = ""
    /\ engine = NoEngine
    /\ locals = NoLocals
    /\ pc = "idle"

(***************************************************************************)
(* The engine's passes, as steps of a run (app.py 204-207)                 *)
(***************************************************************************)
RunConversions ==
    /\ pc = "constructed"
    /\ heap' = Store(heap, engine.df,
                     run_conversions(heap[engine.df], engine.map, current_assumptions))
    /\ pc' = "converted"
    /\ UNCHANGED <<data_df, mappings, results, last_assumptions, current_assumptions,
                   message, engine, locals>>

CalculateLandedCost ==
    /\ pc = "converted"
    /\ heap' = Store(heap, engine.df,
                     calculate_landed_cost(heap[engine.df], current_assumptions))
    /\ locals' = landed_locals(heap[engine.df], current_assumptions)
    /\ pc' = "landed"
    /\ UNCHANGED <<data_df, mappings, results, last_assumptions, current_assumptions,
                   message, engine>>

CalculateWalmartEconomics ==
    /\ pc = "landed"
    /\ heap' = Store(heap, engine.df,
                     calculate_walmart_economics(heap[engine.df], current_assumptions))
    /\ locals' = NoLocals
    /\ pc' = "priced"
    /\ UNCHANGED <<data_df, mappings, results, last_assumptions, current_assumptions,
                   message, engine>>

(***************************************************************************)
(* The handlers of app.py                                                  *)
(***************************************************************************)
Live(d, r, e) == {d, r, e.df} \ {0}

\* app.py 69-80: a file is uploaded and read into a new DataFrame
Upload(df) ==
    /\ pc = "idle"
    /\ LET r == NewRef(heap)
       IN /\ data_df' = r
          /\ heap' = Collect(Store(heap, r, df), Live(r, results, engine))
    /\ message' = "Loaded rows successfully"
    /\ UNCHANGED <<mappings, results, last_assumptions, current_assumptions,
                   engine, locals, pc>>

\* app.py 79-80: reading the file raises
UploadFails ==
    /\ pc = "idle"
    /\ message' = "Error loading file"
    /\ UNCHANGED <<heap, data_df, mappings, results, last_assumptions,
                   current_assumptions, engine, locals, pc>>

\* app.py 120: the mandatory fields left at '(Select Column)'
missing(mapping) ==
    {f \in DOMAIN mapping : mapping[f] = None /\ f # "duty_rate"}

\* the mapping is stored without validation
accept_mapping_unchecked(mapping) == TRUE

\* app.py 119-125: is the mapping stored?
accept_mapping(mapping) == missing(mapping) = {}

\* app.py 105-125: the Save Mappings button with the nine select boxes at
\* `mapping` (a box left at '(Select Column)' gives None)
SaveMappings(mapping) ==
    /\ pc = "idle"
    /\ data_df # 0
    /\ \A f \in DOMAIN mapping : mapping[f] \in heap[data_df].columns \cup {None}
    /\ IF accept_mapping(mapping)
       THEN /\ mappings' = mapping
            /\ message' = "Mappings Saved!"
       ELSE /\ mappings' = mappings
            /\ message' = "Missing required mappings"
    /\ UNCHANGED <<heap, data_df, results, last_assumptions, current_assumptions,
                   engine, locals, pc>>

\* app.py 134-200: the assumption widgets are edited; the script rebuilds
\* current_assumptions from them
EditAssumptions(a) ==
    /\ pc = "idle"
    /\ current_assumptions # a
    /\ current_assumptions' = a
    /\ UNCHANGED <<heap, data_df, mappings, results, last_assumptions, message,
                   engine, locals, pc>>

\* app.py 203: the guard of the Run Calculations button
can_run(d, m) == d # 0 /\ DOMAIN m # {}

\* app.py 202-204, 212-213: the Run Calculations button up to the engine's
\* construction
RunCalculations ==
    /\ pc = "idle"
    /\ IF can_run(data_df, mappings)
       THEN LET c == engine_init(heap, data_df, mappings)
            IN /\ heap' = c[1]
               /\ engine' = c[2]
               /\ pc' = "constructed"
               /\ message' = message
       ELSE /\ message' = "Missing Data or Mappings"
            /\ UNCHANGED <<heap, engine, pc>>
    /\ UNCHANGED <<data_df, mappings, results, last_assumptions,
                   current_assumptions, locals>>

\* app.py 208-211: the results are stored and the engine goes out of scope
StoreResults ==
    /\ pc = "priced"
    /\ results' = engine.df
    /\ last_assumptions' = current_assumptions
    /\ message' = "Calculations Complete! Go to Results tab."
    /\ engine' = NoEngine
    /\ heap' = Collect(heap, Live(data_df, engine.df, NoEngine))
    /\ pc' = "idle"
    /\ UNCHANGED <<data_df, mappings, current_assumptions, locals>>

(***************************************************************************)
(* Inputs of the application: the files a user uploads, the select boxes   *)
(* and the assumption widgets.                                             *)
(***************************************************************************)
MaxAppQty == 1

Fields ==
    {"sku", "qty", "unit_cost", "length", "width", "height", "weight",
     "selling_price", "duty_rate"}

\* the column headers of the two kinds of file
HeadersA ==
    [sku |-> "SKU", qty |-> "Qty", unit_cost |-> "Cost", length |-> "L",
     width |-> "W", height |-> "H", weight |-> "Wt", selling_price |-> "Price",
     duty_rate |-> "Duty"]
HeadersB ==
    [sku |-> "Item", qty |-> "Units", unit_cost |-> "FOB", length |-> "Len",
     width |-> "Wid", height |-> "Hgt", weight |-> "Kg", selling_price |-> "Retail",
     duty_rate |-> "Tariff"]

\* a row of a file with headers h: one product line (no duty column)
FileRow(h, sku, qty, cost, l, w, ht, wt, price) ==
    LET cell == [sku |-> sku, qty |-> qty, unit_cost |-> cost, length |-> l,
                 width |-> w, height |-> ht, weight |-> wt, selling_price |-> price]
        cols == {h[f] : f \in DOMAIN cell}
    IN [c \in cols |-> cell[CHOOSE f \in DOMAIN cell : h[f] = c]]

File(h, rows) ==
    [columns |-> {h[f] : f \in Fields \ {"duty_rate"}}, rows |-> rows]

\* a product line of an uploaded file: a 30 x 20 carton whose height cell is
\* not filled in, 1 kg, cost 2, price 15
AppRow(h, q) ==
    FileRow(h, Str("A1"), Int2(q), Int2(2), Int2(30), Int2(20), Str("n/a"),
            One, Int2(15))

\* the files a user uploads: one product line of quantity 0..MaxAppQty under
\* the first kind of headers, or one product line under the second kind
AppFiles ==
    {File(HeadersA, <<AppRow(HeadersA, q)>>) : q \in 0..MaxAppQty}
    \cup {File(HeadersB, <<AppRow(HeadersB, 1)>>)}

\* the positions of the nine select boxes: every field at its own column of
\* the file, optionally one field left unselected and one field set to the
\* column of another field
Selections(cols) ==
    LET base(h) == [f \in Fields |-> IF h[f] \in cols THEN h[f] ELSE None]
        one(h) == {base(h)}
                  \cup {[base(h) EXCEPT ![f] = None] : f \in {"selling_price"}}
                  \cup {[base(h) EXCEPT ![f] = h["qty"]] : f \in {"sku"}}
    IN {m \in one(HeadersA) \cup one(HeadersB) : \A f \in Fields : m[f] \in cols \cup {None}}

\* the assumption widgets: the initial values, or freight allocated by weight
\* with a larger referral rate
AppAssumptions ==
    {WidgetDefaults,
     [WidgetDefaults EXCEPT !.allocation_method = Str("weight"),
                            !.default_referral_pct = Int2(20)]}

NextApp ==
    \/ \E df \in AppFiles : Upload(df)
    \/ UploadFails
    \/ \E m \in Selections(IF data_df = 0 THEN {} ELSE heap[data_df].columns) :
          SaveMappings(m)
    \/ \E a \in AppAssumptions : EditAssumptions(a)
    \/ RunCalculations
    \/ RunConversions
    \/ CalculateLandedCost
    \/ CalculateWalmartEconomics
    \/ StoreResults

Spec == Init /\ [][NextApp]_vars

(***************************************************************************)
(* The engine driven directly: a caller constructs it on any table, any    *)
(* mapping and any assumptions, runs the three passes and drops it.        *)
(***************************************************************************)
\* UnitEconomicsEngine(df, mappings, assumptions) on the caller's table
EngineCall(df, map, a) ==
    /\ pc = "idle"
    /\ LET r == NewRef(heap)
           c == engine_init(Store(heap, r, df), r, map)
       IN /\ data_df' = r
          /\ heap' = c[1]
          /\ engine' = c[2]
    /\ current_assumptions' = a
    /\ pc' = "constructed"
    /\ UNCHANGED <<mappings, results, last_assumptions, message, locals>>

\* get_results() is read and the caller lets go of the engine and the table
Discard ==
    /\ pc = "priced"
    /\ heap' = [r \in {} |-> 0]
    /\ data_df' = 0
    /\ engine' = NoEngine
    /\ current_assumptions' = WidgetDefaults
    /\ pc' = "idle"
    /\ UNCHANGED <<mappings, results, last_assumptions, message, locals>>

MaxRows == 2
MaxRawRows == 1
MaxQty == 2
MaxWeight == 2

\* the sequences of at most n elements of S
RECURSIVE SeqsUpTo(_, _)
SeqsUpTo(S, n) ==
    IF n = 0 THEN {<< >>}
    ELSE LET shorter == SeqsUpTo(S, n - 1)
         IN shorter \cup {Append(q, x) : q \in {t \in shorter : Len(t) = n - 1}, x \in S}

\* a row of a table whose columns carry the canonical names
Row(sku, qty, cost, l, w, h, wt, price) ==
    [sku |-> sku, qty |-> qty, unit_cost |-> cost, length |-> l, width |-> w,
     height |-> h, weight |-> wt, selling_price |-> price]

CanonicalCols ==
    {"sku", "qty", "unit_cost", "length", "width", "height", "weight", "selling_price"}

Table(cols, rows) == [columns |-> cols, rows |-> rows]

\* the assumptions of the engine's callers: weights in lb, a freight bill of
\* 1000, MPF of 10% between 5 and 25, a storage rate of 1 per cubic metre
\* (in $ per cubic foot)
OnePerCbm == Num(10000, 353147)

Base ==
    [WidgetDefaults EXCEPT !.uom_weight = Str("lb"),
                           !.freight_total_spend = Int2(1000),
                           !.mpf_rate = Num(1, 10), !.mpf_min = Int2(5),
                           !.mpf_max = Int2(25), !.wfs_storage_rate = OnePerCbm]

Inputs(cols, rows, n, assumptions) ==
    {[df |-> Table(cols, r), map |-> EmptyDict, a |-> a] :
        r \in SeqsUpTo(rows, n), a \in assumptions}

\* Freight: lines of quantity 0..MaxQty on a 10 x 10 cm base in three shapes
\* (<<height in cm, weight in lb>>: flat and heavy, a weightless box, a box of
\* 1 lb), under each allocation method
Shapes == {<<0, 1>>, <<10, 0>>, <<10, 1>>}

FreightRows ==
    {Row(Str("A1"), Int2(q), Int2(100), Int2(10), Int2(10), Int2(sh[1]), Int2(sh[2]),
         Int2(20)) : q \in 0..MaxQty, sh \in Shapes}

FreightInputs ==
    Inputs(CanonicalCols, FreightRows, MaxRows,
           {[Base EXCEPT !.allocation_method = Str(m)] : m \in {"cbm", "weight", "hybrid"}})

\* Customs: boxes of quantity 0..MaxQty and unit cost 0 or 100; MPF as in Base,
\* with the floor above the ceiling, and with the widgets' initial MPF values
CustomsRows ==
    {Row(Str("A1"), Int2(q), Int2(c), Int2(10), Int2(10), Int2(10), One, Int2(20)) :
        q \in 0..MaxQty, c \in {0, 100}}

CustomsInputs ==
    Inputs(CanonicalCols, CustomsRows, MaxRows,
           {Base,
            [Base EXCEPT !.mpf_min = Int2(25), !.mpf_max = Int2(5)],
            [Base EXCEPT !.mpf_rate = WidgetDefaults.mpf_rate,
                         !.mpf_min = WidgetDefaults.mpf_min,
                         !.mpf_max = WidgetDefaults.mpf_max]})

\* Margins: one flat unit of 1 lb, of cost 2 priced 20, of cost 0 priced 20 or
\* of cost 2 priced 0; variable fees of 23%, exactly 100% and 110% of sales
MarginRows ==
    {Row(Str("A1"), One, Int2(cp[1]), Int2(10), Int2(10), Zero, One, Int2(cp[2])) :
        cp \in {<<2, 20>>, <<0, 20>>, <<2, 0>>}}

MarginInputs ==
    Inputs(CanonicalCols, MarginRows, MaxRows,
           {Base,
            [Base EXCEPT !.ads_pct_sales = Int2(80), !.returns_pct_sales = Int2(5)],
            [Base EXCEPT !.ads_pct_sales = Int2(90), !.returns_pct_sales = Int2(5)]})

\* Fulfillment: a flat unit of 0..MaxWeight lb or a weightless 10 x 10 x 10
\* box; an excess rate of 0.40, of zero and below zero
FulfillmentRows ==
    {Row(Str("A1"), One, Int2(2), Int2(10), Int2(10), Int2(sh[1]), Int2(sh[2]), Int2(20)) :
        sh \in {<<0, w>> : w \in 0..MaxWeight} \cup {<<10, 0>>}}

FulfillmentInputs ==
    Inputs(CanonicalCols, FulfillmentRows, MaxRows,
           {Base,
            [Base EXCEPT !.wfs_excess_per_lb = Zero],
            [Base EXCEPT !.wfs_excess_per_lb = Num(-2, 5)]})

\* Referral: listings that carry a walmart_referral_pct column of -20, 0 or 10
ReferralRows ==
    {[c \in CanonicalCols \cup {"walmart_referral_pct"} |->
        IF c = "walmart_referral_pct" THEN Int2(r)
        ELSE Row(Str("A1"), One, Int2(2), Int2(10), Int2(10), Zero, One, Int2(20))[c]] :
        r \in {-20, 0, 10}}

ReferralInputs ==
    Inputs(CanonicalCols \cup {"walmart_referral_pct"}, ReferralRows, MaxRows, {Base})

\* Mapping: raw files with a name, a column n holding a number, a text, an
\* empty cell or a numeric text, and optionally a column that is itself
\* called qty
RawRows(cols) ==
    {[c \in cols |-> CASE c = "name" -> Str("A1")
                       [] c = "n" -> v
                       [] OTHER -> Int2(5)] :
        v \in {Int2(3), Str("abc"), NaN, Str("7")}}

RawTablesOf(cols) == {Table(cols, rows) : rows \in SeqsUpTo(RawRows(cols), MaxRawRows)}

\* the mappings of sku, qty and unit_cost onto those columns or None, the
\* other fields either absent from the mapping or None
RawMappings ==
    LET three == {[sku |-> s0, qty |-> q, unit_cost |-> c] :
                     s0 \in {"name", "n", None}, q \in {"n", "name", "qty", None},
                     c \in {"n", "qty", None}}
    IN three \cup {[f \in Fields |-> IF f \in DOMAIN m THEN m[f] ELSE None] : m \in three}

MappingInputs ==
    {[df |-> df, map |-> m, a |-> WidgetDefaults] :
        df \in RawTablesOf({"name", "n"}) \cup RawTablesOf({"name", "n", "qty"}),
        m \in RawMappings}

EngineInputs ==
    FreightInputs \cup CustomsInputs \cup MarginInputs \cup FulfillmentInputs
    \cup ReferralInputs \cup MappingInputs


NextEngine ==
    \/ \E i \in EngineInputs : EngineCall(i.df, i.map, i.a)
    \/ RunConversions
    \/ CalculateLandedCost
    \/ CalculateWalmartEconomics
    \/ Discard

EngineSpec == Init /\ [][NextEngine]_vars

(***************************************************************************)
(* Properties                                                              *)
(***************************************************************************)
\* the engine's table and the engine's assumptions during a run
EDf == heap[engine.df]
EA == current_assumptions
ERows == 1..NRows(EDf)
AfterLanded == pc \in {"landed", "priced"}

QtyNonNegative == \A i \in ERows : ~Lt(EDf.rows[i]["qty"], Zero)
Method == Get(EA, "allocation_method", Str("cbm"))
SumCbm == SerSum(Col(EDf, "total_line_cbm"))
SumKg == SerSum(Col(EDf, "total_line_weight_kg"))
SumFreight == SerSum(Col(EDf, "allocated_freight_total"))
Spend == Get(EA, "freight_total_spend", DefaultFreight)

\* the aggregates the chosen allocation method divides by are non-zero
AllocTotalsNonZero ==
    /\ Method # Str("weight") => ~Eq(SumCbm, Zero)
    /\ Method \in {Str("weight"), Str("hybrid")} => ~Eq(SumKg, Zero)

\* C1 as stated: after calculate_landed_cost, for every table with qty >= 0
\* and every allocation method, the allocated freight of the rows sums to
\* freight_total_spend, also when total CBM or total weight is zero.
C1_FreightSumsAlways ==
    (AfterLanded /\ QtyNonNegative) => SumFreight = Spend

\* C1 amended: after calculate_landed_cost, for every table with qty >= 0 and
\* every allocation method, the allocated freight of the rows sums to
\* freight_total_spend provided every aggregate the method divides by (total
\* CBM for cbm, total weight for weight, both for hybrid) is non-zero.
C1_FreightSums ==
    (AfterLanded /\ QtyNonNegative /\ AllocTotalsNonZero) => SumFreight = Spend

\* a hybrid run over two rows that get different, non-zero amounts
C1_Witness ==
    /\ pc = "landed" /\ Method = Str("hybrid") /\ AllocTotalsNonZero
    /\ NRows(EDf) = 2 /\ Gt(Spend, Zero)
    /\ Gt(EDf.rows[1]["allocated_freight_total"], Zero)
    /\ Gt(EDf.rows[2]["allocated_freight_total"], EDf.rows[1]["allocated_freight_total"])

SumInvoice == SerSum(Col(EDf, "total_purchase_cost"))
SumImportFees == SerSum(Col(EDf, "allocated_import_fees"))
MpfRate == Get(EA, "mpf_rate", DefaultMpfRate)
MpfMin == Get(EA, "mpf_min", DefaultMpfMin)
MpfMax == Get(EA, "mpf_max", DefaultMpfMax)
FixedTotal == Add(Add(locals.total_mpf, locals.total_hmf), locals.fixed_brokerage)

\* C2 as stated: after calculate_landed_cost, for every table, the allocated
\* import fees of the rows sum to total_mpf + total_hmf + brokerage_fee, also
\* when the total invoice value is zero.
C2_ImportFeesSumAlways ==
    pc = "landed" => SumImportFees = FixedTotal

\* C2 amended: after calculate_landed_cost, for every table whose total
\* invoice value is not zero, the allocated import fees of the rows sum to
\* total_mpf + total_hmf + brokerage_fee, each row taking the share
\* total_purchase_cost / total_invoice_val of it.
C2_ImportFeesSum ==
    (pc = "landed" /\ ~Eq(SumInvoice, Zero)) =>
        /\ SumImportFees = FixedTotal
        /\ \A i \in ERows :
              EDf.rows[i]["allocated_import_fees"] =
                  Mul(FixedTotal, Div(EDf.rows[i]["total_purchase_cost"], SumInvoice))

\* two rows of different value share a fixed total in which MPF is at its floor
C2_Witness ==
    /\ pc = "landed" /\ NRows(EDf) = 2 /\ ~Eq(SumInvoice, Zero)
    /\ locals.total_mpf = MpfMin
    /\ Gt(EDf.rows[1]["allocated_import_fees"], EDf.rows[2]["allocated_import_fees"])
    /\ Gt(EDf.rows[2]["allocated_import_fees"], Zero)

MpfRaw == Mul(SumInvoice, MpfRate)

MpfPiecewise ==
    /\ Lt(MpfRaw, MpfMin) => locals.total_mpf = MpfMin
    /\ Gt(MpfRaw, MpfMax) => locals.total_mpf = MpfMax
    /\ (Leq(MpfMin, MpfRaw) /\ Leq(MpfRaw, MpfMax)) => locals.total_mpf = MpfRaw

\* C3 as stated: for every total_invoice_val and every mpf_rate, mpf_min and
\* mpf_max, total MPF is mpf_min when total_invoice_val * mpf_rate is below
\* mpf_min, mpf_max when it is above mpf_max, and the product in between.
C3_MpfClampAlways ==
    pc = "landed" => MpfPiecewise

\* C3 amended: for every total_invoice_val and every mpf_rate, and every
\* mpf_min <= mpf_max, total MPF is computed once on the aggregate invoice
\* value: mpf_min when total_invoice_val * mpf_rate is below mpf_min, mpf_max
\* when it is above mpf_max, and the product in between.
C3_MpfClamp ==
    (pc = "landed" /\ Leq(MpfMin, MpfMax)) => MpfPiecewise

\* two lines, each below the ceiling, whose total is clamped to the ceiling
C3_Witness ==
    /\ pc = "landed" /\ Lt(MpfMin, MpfMax) /\ NRows(EDf) = 2
    /\ Gt(MpfRaw, MpfMax) /\ locals.total_mpf = MpfMax
    /\ \A i \in ERows :
          /\ Gt(Mul(EDf.rows[i]["total_purchase_cost"], MpfRate), MpfMin)
          /\ Lt(Mul(EDf.rows[i]["total_purchase_cost"], MpfRate), MpfMax)

\* C4 as stated: for every row with qty = 0, no per-unit derivation
\* (unit_freight_cost, unit_import_fees, landed_cost_unit) divides by zero:
\* the row's per-unit columns are finite numbers.
C4_NoDivisionByZero ==
    AfterLanded =>
        \A i \in ERows :
            Eq(EDf.rows[i]["qty"], Zero) =>
                /\ IsFinite(EDf.rows[i]["unit_freight_cost"])
                /\ IsFinite(EDf.rows[i]["unit_import_fees"])
                /\ IsFinite(EDf.rows[i]["landed_cost_unit"])


Price(i) == EDf.rows[i]["selling_price"]
Landed(i) == EDf.rows[i]["landed_cost_unit"]
BreakevenDenominator == Sub(One, var_fee_pct(EA))

\* C5 as stated: for every row, when the denominator of net_margin_pct
\* (selling_price), of roi_pct (landed_cost_unit) or of breakeven_price
\* (1 - variable_fee_fraction) is zero or negative, the output is a non-finite
\* marker and never an ordinary finite number.
C5_InvalidIsMarked ==
    pc = "priced" =>
        \A i \in ERows :
            /\ Leq(Price(i), Zero) => ~IsFinite(EDf.rows[i]["net_margin_pct"])
            /\ Leq(Landed(i), Zero) => ~IsFinite(EDf.rows[i]["roi_pct"])
            /\ Leq(BreakevenDenominator, Zero) => ~IsFinite(EDf.rows[i]["breakeven_price"])

\* the caller's table and mapping of the run
Raw == heap[data_df]
SourceOf(f) == Get(engine.map, f, f)
Missing(f) == ~(Truthy(SourceOf(f)) /\ SourceOf(f) \in Raw.columns)
AfterConversions == pc \in {"converted", "landed", "priced"}

\* C7 as stated: after run_conversions, for every raw table and every mapping
\* (also one in which two fields name the same source column, or a field is
\* absent), the nine canonical columns exist; the eight non-sku columns are
\* numeric, 0.0 where the field is missing or the cell does not parse, and a
\* missing sku is the placeholder string.
C7_CanonicalColumns ==
    AfterConversions =>
        /\ {f[2] : f \in {CanonicalFields[j] : j \in 1..Len(CanonicalFields)}}
              \subseteq EDf.columns
        /\ \A j \in 2..Len(CanonicalFields), i \in ERows :
              LET f == CanonicalFields[j]
                  v == EDf.rows[i][f[2]]
              IN /\ IsFinite(v)
                 /\ Missing(f[1]) => v = Zero
                 /\ (~Missing(f[1]) /\ IsNaN(ToNumeric(Raw.rows[i][SourceOf(f[1])])))
                        => v = Zero
        /\ Missing("sku") => \A i \in ERows : EDf.rows[i]["sku"] = Str("Unknown-SKU")

MandatoryFields == Fields \ {"duty_rate"}
Complete(m) == \A f \in MandatoryFields : f \in DOMAIN m /\ m[f] # None

\* C8: in every sequence of uploads, saves and runs, the stored mapping is
\* empty or maps every mandatory field (a mapping with a mandatory field
\* unmapped is never stored), and the engine is only ever constructed with a
\* mapping that maps every mandatory field.
C8_EngineNeedsCompleteMapping ==
    /\ DOMAIN mappings = {} \/ Complete(mappings)
    /\ pc # "idle" => Complete(engine.map)

\* the engine is constructed right after a mapping was rejected
C8_Witness ==
    /\ pc = "constructed" /\ message = "Missing required mappings"
    /\ Complete(engine.map)

DefaultPct == Get(EA, "default_referral_pct", DefaultReferralPct)
HasOverride ==
    /\ "walmart_referral_pct" \in EDf.columns
    /\ \E i \in ERows : Gt(EDf.rows[i]["walmart_referral_pct"], Zero)

\* C9 as stated: the referral fee of a row is selling_price * referral_pct /
\* 100, referral_pct being the row's walmart_referral_pct whenever that column
\* exists and at least one of its values is positive, and default_referral_pct
\* otherwise.
C9_ReferralOverride ==
    pc = "priced" =>
        \A i \in ERows :
            EDf.rows[i]["referral_fee"] =
                Mul(Price(i),
                    Div(IF HasOverride THEN EDf.rows[i]["walmart_referral_pct"]
                        ELSE DefaultPct, Hundred))

Bw(i) == EDf.rows[i]["billable_weight_lb"]
Fee(i) == EDf.rows[i]["wfs_fulfillment_fee"]
WfsBase == Get(EA, "wfs_base_fee", DefaultWfsBase)
WfsAllowance == Get(EA, "wfs_base_weight_lb", DefaultWfsAllowance)
WfsExcess == Get(EA, "wfs_excess_per_lb", DefaultWfsExcess)

\* the fee is the piecewise function of bw = max(weight_lb, dim_weight_lb)
FeeIsPiecewise ==
    \A i \in ERows :
        /\ Leq(EDf.rows[i]["weight_lb"], Bw(i))
        /\ Leq(EDf.rows[i]["dim_weight_lb"], Bw(i))
        /\ Bw(i) \in {EDf.rows[i]["weight_lb"], EDf.rows[i]["dim_weight_lb"]}
        /\ Leq(Bw(i), WfsAllowance) => Fee(i) = WfsBase
        /\ Gt(Bw(i), WfsAllowance) =>
              Fee(i) = Add(WfsBase, Mul(Sub(Bw(i), WfsAllowance), WfsExcess))

FeeNonDecreasing == \A i, j \in ERows : Leq(Bw(i), Bw(j)) => Leq(Fee(i), Fee(j))
FeeStrictAbove == \A i \in ERows : Gt(Bw(i), WfsAllowance) => Gt(Fee(i), WfsBase)

\* C10 as stated: for all assumption values the fulfillment fee is the
\* piecewise function of bw = max(weight_lb, dim_weight_lb), non-decreasing in
\* bw and strictly greater than wfs_base_fee above the breakpoint.
C10_FeeMonotoneAlways ==
    pc = "priced" => (FeeIsPiecewise /\ FeeNonDecreasing /\ FeeStrictAbove)

\* C10 amended: the fulfillment fee is wfs_base_fee for bw <= wfs_base_weight_lb
\* and wfs_base_fee + (bw - wfs_base_weight_lb) * wfs_excess_per_lb above it,
\* with bw = max(weight_lb, dim_weight_lb), for all assumption values; it is
\* non-decreasing in bw when wfs_excess_per_lb >= 0 and strictly greater than
\* wfs_base_fee above the breakpoint when wfs_excess_per_lb > 0.
C10_FeeMonotone ==
    pc = "priced" =>
        /\ FeeIsPiecewise
        /\ Leq(Zero, WfsExcess) => FeeNonDecreasing
        /\ Gt(WfsExcess, Zero) => FeeStrictAbove

\* a box billed by its dimensional weight at the base fee next to a heavier
\* item billed above the base fee
C10_Witness ==
    /\ pc = "priced" /\ Gt(WfsExcess, Zero)
    /\ \E i, j \in ERows :
          /\ Gt(EDf.rows[i]["dim_weight_lb"], EDf.rows[i]["weight_lb"])
          /\ Fee(i) = WfsBase
          /\ Gt(Bw(j), WfsAllowance) /\ Gt(Fee(j), Fee(i))

\* the three passes on a fresh copy of a table
Pipeline(df, map, a) ==
    CHOOSE priced \in
        {calculate_walmart_economics(landed, a) :
            landed \in {calculate_landed_cost(converted, a) :
                converted \in {run_conversions(df, map, a)}}} : TRUE

\* C6: from the engine's construction to the end of its third pass, no step
\* changes the caller's table (the object data_df names, or its contents) or
\* the Assumptions record, and what a run produces is the three passes applied
\* to the caller's table as uploaded, whatever ran before.
C6_CallerStateUntouched ==
    [][/\ (pc # "idle" \/ pc' # "idle") =>
            /\ data_df' = data_df
            /\ heap'[data_df] = heap[data_df]
            /\ current_assumptions' = current_assumptions
       /\ pc' = "priced" =>
            heap'[engine'.df] = Pipeline(heap'[data_df'], engine'.map, current_assumptions')
      ]_vars

\* a second run over the same uploaded table under other assumptions
C6_Witness ==
    /\ pc = "priced" /\ results # 0
    /\ last_assumptions # current_assumptions
    /\ \A c \in Raw.columns :
          c \in heap[results].columns /\ Col(heap[results], c) = Col(Raw, c)


\* the engine's table with every row's selling_price replaced by its
\* breakeven_price, and the fee and profit columns computed again on it
Repriced ==
    CHOOSE t \in
        {calculate_walmart_economics(d, EA) :
            d \in {SetCol(EDf, "selling_price", Col(EDf, "breakeven_price"))}} : TRUE
ProfitAtBreakeven(i) == Repriced.rows[i]["net_profit"]
Breakeven(i) == EDf.rows[i]["breakeven_price"]
VarFeesBelowOne == Lt(var_fee_pct(EA), One)

\* C11 as stated: for every row with variable_fee_fraction < 1, substituting
\* breakeven_price for selling_price in the row's referral, ads, returns and
\* net_profit computation gives net_profit = 0.
C11_BreakevenZeroesProfitAlways ==
    (pc = "priced" /\ VarFeesBelowOne) =>
        \A i \in ERows : Eq(ProfitAtBreakeven(i), Zero)

\* C11 amended: for every row with variable_fee_fraction < 1 and a finite
\* landed_cost_unit, net_profit at selling_price = breakeven_price is 0 when
\* the engine charges the default referral rate, and is breakeven_price *
\* (default_referral_pct - walmart_referral_pct) / 100 when it charges the
\* row's override; for a row whose landed_cost_unit is not finite it is not
\* finite either.
C11_BreakevenZeroesProfit ==
    (pc = "priced" /\ VarFeesBelowOne) =>
        \A i \in ERows :
            /\ (IsFinite(Landed(i)) /\ ~use_override(EDf)) =>
                  Eq(ProfitAtBreakeven(i), Zero)
            /\ (IsFinite(Landed(i)) /\ use_override(EDf)) =>
                  Eq(ProfitAtBreakeven(i),
                     Mul(Breakeven(i),
                         Div(Sub(DefaultPct, EDf.rows[i]["walmart_referral_pct"]),
                             Hundred)))
            /\ ~IsFinite(Landed(i)) => ~IsFinite(ProfitAtBreakeven(i))

\* a row sold at a loss under the default referral rate whose breakeven price
\* is above its selling price and brings its net profit to zero
C11_Witness ==
    /\ pc = "priced" /\ VarFeesBelowOne /\ ~use_override(EDf)
    /\ \E i \in ERows :
          /\ IsFinite(Landed(i)) /\ Gt(Landed(i), Zero)
          /\ Lt(EDf.rows[i]["net_profit"], Zero)
          /\ Gt(Price(i), Zero) /\ Gt(Breakeven(i), Price(i))
          /\ Eq(ProfitAtBreakeven(i), Zero)

\* the field is mapped to a column of the caller's table
MappedToSource(f) ==
    /\ f \in DOMAIN engine.map
    /\ Truthy(engine.map[f])
    /\ engine.map[f] \in Raw.columns

\* what the source column of field f holds in row i of the caller's table,
\* coerced as _safe_numeric coerces it (sku is not coerced)
SourceValue(f, i) ==
    IF f = "sku" THEN Raw.rows[i][engine.map[f]]
    ELSE FillNa(ToNumeric(Raw.rows[i][engine.map[f]]), Zero)

\* C12 as stated: after run_conversions, every canonical column whose mapping
\* names a column of the raw table holds exactly the numerically coerced
\* values that source column had in the raw input, whatever the source columns
\* are called, also when a source column carries the canonical name of another
\* field.
C12_ColumnsHoldSourceValues ==
    pc = "converted" =>
        \A j \in 1..Len(CanonicalFields) :
            LET f == CanonicalFields[j]
            IN MappedToSource(f[1]) =>
                  /\ f[2] \in EDf.columns
                  /\ \A i \in ERows : EDf.rows[i][f[2]] = SourceValue(f[1], i)

\* C13 as stated: in every sequence of uploads, saves and runs, whenever the
\* engine is invoked, the saved mapping of every mandatory field names a
\* column of the table the engine is invoked on; a mapping saved for an
\* earlier upload is never used on a later table that lacks those columns.
C13_MappingFitsTable ==
    pc = "constructed" =>
        \A f \in MandatoryFields :
            f \in DOMAIN engine.map /\ engine.map[f] \in Raw.columns

====
